---- MODULE Spec2Model ----
(***************************************************************************)
(* Model of jump_starter.models.Questionnaire.validate_and_build_id_map:   *)
(* the walk over the Question/Switch tree that fills the identifier        *)
(* registry and the pending reference list, the post-walk reference check, *)
(* and the final raise / publish step.                                     *)
(*                                                                         *)
(* Python values are represented as follows.                               *)
(*   str | None      None is <<>>, the string s is <<s>>                   *)
(*   a location      a tuple of field names and 0-based integer indices    *)
(*   a node object   the node record; where object identity matters (the   *)
(*                   values of id_to_node) the object is named by the      *)
(*                   place it occupies in the tree                         *)
(* Fields the validator never reads (Answer.tooltip/templates/commentary,  *)
(* Question.variable, Case.value, the Questionnaire's templates) are left  *)
(* out of the records.                                                     *)
(***************************************************************************)
EXTENDS Integers, Sequences, FiniteSets, TLC

\* Largest document the model validates, counted as: one per Question,
\* Switch, Case and Answer, plus one per optional field that is set.
MaxSize == 5

None == <<>>
Some(s) == <<s>>

\* Question prompts (question: str admits the empty string), and the strings
\* an optional id / next_question / goto may carry when it is set (the
\* empty string included).
Texts == {"", "a"}
Values == {"", "a", "b"}

\* Answer labels and switch expressions are strings of the identifier
\* alphabet, so that a registry that wrongly took them for identifiers
\* would show.
AnswerLabel == "b"
SwitchExpr == "b"

Answer(g) == [answer |-> AnswerLabel, goto |-> g]
Question(q, id, ans, nq) ==
    [type |-> "Question", question |-> q, id |-> id, answers |-> ans, next_question |-> nq]
Case(qs) == [questions |-> qs]
Switch(id, cs) == [type |-> "Switch", switch |-> SwitchExpr, id |-> id, cases |-> cs]

\* The optional values of size n: None costs nothing, a set field costs one.
OptOf(n) == IF n = 0 THEN {None} ELSE IF n = 1 THEN {Some(v) : v \in Values} ELSE {}

RECURSIVE AnswersOf(_)
AnswersOf(n) ==
    IF n = 0 THEN {<<>>}
    ELSE UNION {
           {<<Answer(g)>> \o rest : g \in OptOf(c), rest \in AnswersOf(n - 1 - c)}
           : c \in {c \in 0..1 : n - 1 - c >= 0}}

QuestionsOf(n) ==
    UNION {
      {Question(q, id, ans, nq) :
          q \in Texts, id \in OptOf(s[1]), nq \in OptOf(s[2]), ans \in AnswersOf(n - 1 - s[1] - s[2])}
      : s \in {s \in (0..1) \X (0..1) : n - 1 - s[1] - s[2] >= 0}}

\* The Switches of size n, given the case lists of every smaller size
\* (cases[m + 1] holds the case lists of size m).
SwitchesOf(n, cases) ==
    UNION {
      {Switch(id, cs) : id \in OptOf(c), cs \in cases[n - c]}
      : c \in {c \in 0..1 : n - 1 - c >= 0}}

NodesOf(n, cases) == QuestionsOf(n) \cup SwitchesOf(n, cases)

\* The questions lists of size n >= 1, given those of every smaller size.
ListsOf(n, lists, cases) ==
    UNION {
      {<<node>> \o rest : node \in NodesOf(m, cases), rest \in lists[n - m + 1]}
      : m \in 1..n}

\* The case lists of size n >= 1: a Case costs one, plus its questions.
CasesOf(n, lists, cases) ==
    UNION {
      {<<Case(qs)>> \o rest : qs \in lists[m + 1], rest \in cases[n - m]}
      : m \in 0..(n - 1)}

\* Sizes(n)[m + 1] holds the questions lists and the case lists of size m,
\* for every m up to n.
RECURSIVE Sizes(_)
Sizes(n) ==
    IF n = 0 THEN <<[lists |-> {<<>>}, cases |-> {<<>>}]>>
    ELSE LET below == Sizes(n - 1)
             lists == [m \in 1..n |-> below[m].lists]
             cases == [m \in 1..n |-> below[m].cases]
             cs == CasesOf(n, lists, cases)
         IN Append(below, [lists |-> ListsOf(n, lists, Append(cases, cs)), cases |-> cs])

Smaller == Sizes(MaxSize - 1)
SmallerLists == [m \in 1..MaxSize |-> Smaller[m].lists]
SmallerCases == [m \in 1..MaxSize |-> Smaller[m].cases]

\* questions is a questions list of size at most MaxSize: empty, or a
\* first node followed by a list of the size that is left.
IsInput(qs) ==
    \/ qs = <<>>
    \/ \E n \in 1..MaxSize, m \in 1..MaxSize :
         /\ m <= n
         /\ \E node \in NodesOf(m, SmallerCases), rest \in SmallerLists[n - m + 1] :
              qs = <<node>> \o rest

VARIABLES
    questions,      \* self.questions, the root list (input, never written)
    pc,             \* "walk", "check", "Validated" or "Rejected"
    stack,          \* the activations of walk(), innermost last
    errors,         \* the local list errors
    id_to_node,     \* the local dict id_to_node
    refs,           \* the local list refs
    r,              \* position of the reference loop in refs (1-based)
    question_map,   \* self._question_map
    raised,         \* the line errors of the raised ValidationError, or None
    visited         \* history: node_loc of every iteration of walk's loop

vars == <<questions, pc, stack, errors, id_to_node, refs, r, question_map, raised, visited>>

\* Python truthiness of a str | None: None and "" are false.
Truthy(o) == o # None /\ o[1] # ""

\* Variant of NodeLoc: enumerate(nodes, 1).
NodeLoc_OneBased(loc, i) == loc \o <<"questions", i + 1>>

\* node_loc = (*loc, "questions", i), with i the 0-based index.
NodeLoc(loc, i) == loc \o <<"questions", i>>

\* Variants of EffectiveId: the id never consulted; the id tested with
\* "is not None" instead of truthiness.
EffectiveId_TextOnly(node) == node.question
EffectiveId_NotNone(node) == IF node.id # None THEN node.id[1] ELSE node.question

\* id = node.id if node.id else node.question
EffectiveId(node) == IF Truthy(node.id) THEN node.id[1] ELSE node.question

\* Variant of SwitchDeclares: only Questions are registered.
SwitchDeclares_Never(node) == FALSE

\* Whether the Switch branch declares an identifier: if node.id
SwitchDeclares(node) == Truthy(node.id)

\* if id in id_to_node
AlreadyBound(id, map) == id \in DOMAIN map

DuplicateIdError(id, node_loc) ==
    [type |-> "duplicate_id", loc |-> node_loc \o <<"id">>, ctx |-> id]

InvalidReferenceError(ref_loc, ref_id) ==
    [type |-> "invalid_reference", loc |-> ref_loc, ctx |-> ref_id]

\* The dup check shared in shape by both branches: flag, or bind.
ErrorsAfterDeclare(errs, map, id, node_loc) ==
    IF AlreadyBound(id, map) THEN Append(errs, DuplicateIdError(id, node_loc)) ELSE errs

\* Variant of MapAfterDeclare: the binding is overwritten, last occurrence wins.
MapAfterDeclare_LastWins(map, id, node_loc) == (id :> node_loc) @@ map

MapAfterDeclare(map, id, node_loc) ==
    IF AlreadyBound(id, map) THEN map ELSE (id :> node_loc) @@ map

\* if node.next_question: refs.append(...)
NextQuestionRefs(node, node_loc) ==
    IF Truthy(node.next_question)
    THEN << <<node_loc \o <<"next_question">>, node.next_question[1]>> >>
    ELSE <<>>

\* for j, ans in enumerate(node.answers): if ans.goto: refs.append(...)
GotoLoc(node_loc, j) == node_loc \o <<"answers", j, "goto">>

\* Variant of GotoRefs: only the first answer's goto is collected.
GotoRefs_FirstOnly(node, node_loc) ==
    IF node.answers # <<>> /\ Truthy(node.answers[1].goto)
    THEN << <<GotoLoc(node_loc, 0), node.answers[1].goto[1]>> >>
    ELSE <<>>

GotoRefs(node, node_loc) ==
    LET all == [j \in 1..Len(node.answers) |->
                  [loc |-> GotoLoc(node_loc, j - 1), goto |-> node.answers[j].goto]]
        kept == SelectSeq(all, LAMBDA a : Truthy(a.goto))
    IN [n \in 1..Len(kept) |-> <<kept[n].loc, kept[n].goto[1]>>]

\* Variants of QuestionRefs: a Question flagged as duplicate is left at
\* once (a continue after the flag); the gotos are collected before
\* next_question.
QuestionRefs_SkipDuplicate(node, node_loc) ==
    IF AlreadyBound(EffectiveId(node), id_to_node)
    THEN <<>>
    ELSE NextQuestionRefs(node, node_loc) \o GotoRefs(node, node_loc)
QuestionRefs_GotosFirst(node, node_loc) ==
    GotoRefs(node, node_loc) \o NextQuestionRefs(node, node_loc)

QuestionRefs(node, node_loc) == NextQuestionRefs(node, node_loc) \o GotoRefs(node, node_loc)

\* walk(case.questions, node_loc + ("cases", k))
CaseLoc(node_loc, k) == node_loc \o <<"cases", k>>

Frame(nodes, loc) == [nodes |-> nodes, loc |-> loc, i |-> 1, k |-> 0]

Top == stack[Len(stack)]
SetTop(f) == [stack EXCEPT ![Len(stack)] = f]
CurNode == Top.nodes[Top.i]
CurLoc == NodeLoc(Top.loc, Top.i - 1)
InLoop == pc = "walk" /\ stack # <<>> /\ Top.i <= Len(Top.nodes)

Init ==
    /\ IsInput(questions)
    /\ pc = "walk"
    /\ stack = <<Frame(questions, <<>>)>>
    /\ errors = <<>>
    /\ id_to_node = <<>>
    /\ refs = <<>>
    /\ r = 1
    /\ question_map = <<>>
    /\ raised = None
    /\ visited = <<>>

\* One iteration of walk's loop on a Question.
VisitQuestion ==
    /\ InLoop
    /\ CurNode.type = "Question"
    /\ LET id == EffectiveId(CurNode) IN
         /\ errors' = ErrorsAfterDeclare(errors, id_to_node, id, CurLoc)
         /\ id_to_node' = MapAfterDeclare(id_to_node, id, CurLoc)
    /\ refs' = refs \o QuestionRefs(CurNode, CurLoc)
    /\ stack' = SetTop([Top EXCEPT !.i = @ + 1])
    /\ visited' = Append(visited, CurLoc)
    /\ UNCHANGED <<questions, pc, r, question_map, raised>>

\* The head of an iteration on a Switch: the id check, up to the cases loop.
VisitSwitch ==
    /\ InLoop
    /\ CurNode.type = "Switch"
    /\ Top.k = 0
    /\ IF SwitchDeclares(CurNode)
       THEN /\ errors' = ErrorsAfterDeclare(errors, id_to_node, CurNode.id[1], CurLoc)
            /\ id_to_node' = MapAfterDeclare(id_to_node, CurNode.id[1], CurLoc)
       ELSE UNCHANGED <<errors, id_to_node>>
    /\ stack' = SetTop([Top EXCEPT !.k = 1])
    /\ visited' = Append(visited, CurLoc)
    /\ UNCHANGED <<questions, pc, refs, r, question_map, raised>>

\* One iteration of the cases loop: the recursive call of walk.
EnterCase ==
    /\ InLoop
    /\ CurNode.type = "Switch"
    /\ Top.k >= 1
    /\ Top.k <= Len(CurNode.cases)
    /\ stack' = Append(SetTop([Top EXCEPT !.k = @ + 1]),
                       Frame(CurNode.cases[Top.k].questions, CaseLoc(CurLoc, Top.k - 1)))
    /\ UNCHANGED <<questions, pc, errors, id_to_node, refs, r, question_map, raised, visited>>

\* The cases loop is exhausted: on to the next node of the list.
LeaveSwitch ==
    /\ InLoop
    /\ CurNode.type = "Switch"
    /\ Top.k > Len(CurNode.cases)
    /\ stack' = SetTop([Top EXCEPT !.i = @ + 1, !.k = 0])
    /\ UNCHANGED <<questions, pc, errors, id_to_node, refs, r, question_map, raised, visited>>

\* walk's loop is exhausted: return to the caller; the outermost call
\* returns to the reference loop.
Return ==
    /\ pc = "walk"
    /\ stack # <<>>
    /\ Top.i > Len(Top.nodes)
    /\ stack' = SubSeq(stack, 1, Len(stack) - 1)
    /\ pc' = IF Len(stack) = 1 THEN "check" ELSE "walk"
    /\ UNCHANGED <<questions, errors, id_to_node, refs, r, question_map, raised, visited>>

\* Variant of Unknown: a missing identifier is reported once only.
Unknown_OncePerId(ref_id, map) ==
    ref_id \notin DOMAIN map /\ \A e \in DOMAIN errors : errors[e].ctx # ref_id

\* if ref_id not in id_to_node
Unknown(ref_id, map) == ref_id \notin DOMAIN map

\* One iteration of the reference loop.
CheckRef ==
    /\ pc = "check"
    /\ r <= Len(refs)
    /\ errors' = IF Unknown(refs[r][2], id_to_node)
                 THEN Append(errors, InvalidReferenceError(refs[r][1], refs[r][2]))
                 ELSE errors
    /\ r' = r + 1
    /\ UNCHANGED <<questions, pc, stack, id_to_node, refs, question_map, raised, visited>>

\* Variant of HasErrors: only unresolved references reject.
HasErrors_RefsOnly(errs) == \E e \in DOMAIN errs : errs[e].type = "invalid_reference"

\* if errors: (Python truthiness of a list)
HasErrors(errs) == errs # <<>>

\* raise ValidationError.from_exception_data(..., errors)
Raise ==
    /\ pc = "check"
    /\ r > Len(refs)
    /\ HasErrors(errors)
    /\ raised' = Some(errors)
    /\ pc' = "Rejected"
    /\ UNCHANGED <<questions, stack, errors, id_to_node, refs, r, question_map, visited>>

\* self._question_map = id_to_node; return self
Publish ==
    /\ pc = "check"
    /\ r > Len(refs)
    /\ ~HasErrors(errors)
    /\ question_map' = id_to_node
    /\ pc' = "Validated"
    /\ UNCHANGED <<questions, stack, errors, id_to_node, refs, r, raised, visited>>

Next ==
    \/ VisitQuestion
    \/ VisitSwitch
    \/ EnterCase
    \/ LeaveSwitch
    \/ Return
    \/ CheckRef
    \/ Raise
    \/ Publish

Spec == Init /\ [][Next]_vars

\* The validator is one synchronous call with no I/O and no yielding: a
\* step that can be taken is taken.
FairSpec == Spec /\ WF_vars(Next)


(***************************************************************************)
(* The tree as a document: what the properties below are stated against.   *)
(* These definitions read the input only; none of them uses an operator of *)
(* the walk above.                                                         *)
(***************************************************************************)
Root == [questions |-> questions]

Done == pc \in {"Validated", "Rejected"}
WalkOver == pc # "walk"

\* A path alternates field names (odd positions) and 0-based indices (even
\* positions).  Follows(v, path): the path can be followed from the record v.
RECURSIVE Follows(_, _)
Follows(v, path) ==
    IF path = <<>> THEN TRUE
    ELSE /\ path[1] \in DOMAIN v
         /\ \/ Len(path) = 1
            \/ /\ path[2] + 1 \in DOMAIN v[path[1]]
               /\ Follows(v[path[1]][path[2] + 1], SubSeq(path, 3, Len(path)))

\* The value the path leads to.
RECURSIVE Get(_, _)
Get(v, path) ==
    IF path = <<>> THEN v
    ELSE IF Len(path) = 1 THEN v[path[1]]
    ELSE Get(v[path[1]][path[2] + 1], SubSeq(path, 3, Len(path)))

\* The places of the Question and Switch nodes of a list placed at loc.
RECURSIVE PlacesOf(_, _)
PlacesOf(nodes, loc) ==
    UNION {
       LET p == loc \o <<"questions", i - 1>> IN
         {p} \cup
         (IF nodes[i].type = "Switch"
          THEN UNION {PlacesOf(nodes[i].cases[k].questions, p \o <<"cases", k - 1>>)
                        : k \in 1..Len(nodes[i].cases)}
          ELSE {})
       : i \in 1..Len(nodes)}

Places == PlacesOf(questions, <<>>)
NodeAt(p) == Get(Root, p)
QuestionPlaces == {p \in Places : NodeAt(p).type = "Question"}
SwitchPlaces == {p \in Places : NodeAt(p).type = "Switch"}

\* An optional string is given when it is neither None nor empty.
Given(o) == Len(o) = 1 /\ o[1] # ""

\* The places that declare an identifier, and the identifier each declares:
\* a Question its non-empty id, else its question text; a Switch its
\* non-empty id.
Declaring == QuestionPlaces \cup {p \in SwitchPlaces : Given(NodeAt(p).id)}
Declared(p) ==
    LET n == NodeAt(p) IN IF Given(n.id) THEN n.id[1] ELSE n.question
DeclaredIds == {Declared(p) : p \in Declaring}
DeclarersOf(id) == {p \in Declaring : Declared(p) = id}

\* The same with "present" read as "not None", the empty string counting
\* as an identifier.
DeclaringNotNone == QuestionPlaces \cup {p \in SwitchPlaces : NodeAt(p).id # None}
DeclaredNotNone(p) ==
    LET n == NodeAt(p) IN IF n.id # None THEN n.id[1] ELSE n.question
DeclaredIdsNotNone == {DeclaredNotNone(p) : p \in DeclaringNotNone}

\* The reference fields of the tree: every next_question and every goto,
\* by location.
NextQuestionFields == {p \o <<"next_question">> : p \in QuestionPlaces}
GotoFields ==
    UNION {{p \o <<"answers", j - 1, "goto">> : j \in 1..Len(NodeAt(p).answers)}
             : p \in QuestionPlaces}
RefFields == NextQuestionFields \cup GotoFields
GivenRefs == {f \in RefFields : Given(Get(Root, f))}
NotNoneRefs == {f \in RefFields : Get(Root, f) # None}
RefValue(f) == Get(Root, f)[1]

\* The Question a reference field belongs to.
OwnerOf(f) ==
    IF f[Len(f)] = "next_question" THEN SubSeq(f, 1, Len(f) - 1) ELSE SubSeq(f, 1, Len(f) - 3)

\* Document order (depth-first pre-order) of two places: an ancestor comes
\* before its descendants, and otherwise the first index that differs decides.
Before(p, q) ==
    /\ p # q
    /\ \/ Len(p) < Len(q) /\ SubSeq(q, 1, Len(p)) = p
       \/ \E d \in 1..Len(p) :
            /\ d <= Len(q)
            /\ d % 2 = 0
            /\ SubSeq(p, 1, d - 1) = SubSeq(q, 1, d - 1)
            /\ p[d] < q[d]

\* The order in which two reference fields are met: by owner in document
\* order, then next_question before the gotos, then by answer index.
RefBefore(f, g) ==
    \/ Before(OwnerOf(f), OwnerOf(g))
    \/ /\ OwnerOf(f) = OwnerOf(g)
       /\ \/ f[Len(f)] = "next_question" /\ g[Len(g)] = "goto"
          \/ f[Len(f)] = "goto" /\ g[Len(g)] = "goto" /\ f[Len(f) - 1] < g[Len(g) - 1]

ErrorsOf(type) == {e \in DOMAIN errors : errors[e].type = type}
ErrorsAt(type, loc) == {e \in ErrorsOf(type) : errors[e].loc = loc}

TypeOK ==
    /\ pc \in {"walk", "check", "Validated", "Rejected"}
    /\ DOMAIN id_to_node \subseteq DeclaredIds
    /\ \A id \in DOMAIN id_to_node : id_to_node[id] \in Places
    /\ r \in 1..(Len(refs) + 1)


(***************************************************************************)
(* C1.  A tree in which no two nodes declare the same identifier and every *)
(* next_question / goto that is given equals a declared identifier is      *)
(* Validated, and the published map takes every declared identifier (a     *)
(* Question's id, its question text when it has none, a Switch's id) to    *)
(* exactly the node that declared it.                                      *)
(***************************************************************************)
NoDuplicates == \A p, q \in Declaring : p # q => Declared(p) # Declared(q)
AllResolvable == \A f \in GivenRefs : RefValue(f) \in DeclaredIds
ValidTree == NoDuplicates /\ AllResolvable

C1_ValidTreeIsPublished ==
    (ValidTree /\ Done) =>
        /\ pc = "Validated"
        /\ DOMAIN question_map = DeclaredIds
        /\ \A p \in Declaring : question_map[Declared(p)] = p

\* Scenario A with an explicit id on the first Question: its next_question
\* is the text of the second, which has no id; the map takes the text to the
\* second node and the id to the first, though both carry the same text.
C1_Witness ==
    /\ pc = "Validated"
    /\ \E p, q \in QuestionPlaces :
         /\ Before(p, q)
         /\ Given(NodeAt(p).id) /\ NodeAt(q).id = None
         /\ NodeAt(p).question = NodeAt(q).question
         /\ NodeAt(p).next_question = Some(NodeAt(q).question)
         /\ Given(NodeAt(p).next_question)
         /\ question_map[NodeAt(q).question] = q
         /\ question_map[NodeAt(p).id[1]] = p

(***************************************************************************)
(* C2.  An identifier declared by n >= 2 nodes gives exactly n-1           *)
(* duplicate_id violations carrying it and the validation is Rejected: the *)
(* first declarer in document order is not flagged and keeps the binding,  *)
(* every later declarer is flagged exactly once.                           *)
(***************************************************************************)
FirstOf(id) == CHOOSE p \in DeclarersOf(id) : \A q \in DeclarersOf(id) \ {p} : Before(p, q)

C2_OneViolationPerLaterDeclarer ==
    Done =>
      \A id \in DeclaredIds :
        LET D == DeclarersOf(id)
            dups == {e \in ErrorsOf("duplicate_id") : errors[e].ctx = id}
        IN /\ id_to_node[id] = FirstOf(id)
           /\ ErrorsAt("duplicate_id", FirstOf(id) \o <<"id">>) = {}
           /\ \A q \in D \ {FirstOf(id)} :
                /\ Cardinality(ErrorsAt("duplicate_id", q \o <<"id">>)) = 1
                /\ ErrorsAt("duplicate_id", q \o <<"id">>) \subseteq dups
           /\ Cardinality(dups) = Cardinality(D) - 1
           /\ Cardinality(D) >= 2 => pc = "Rejected"

\* Three declarers of one identifier, a Question by its text and a Switch
\* among them, rejected with two violations.
C2_Witness ==
    /\ pc = "Rejected"
    /\ \E id \in DeclaredIds :
         /\ Cardinality(DeclarersOf(id)) = 3
         /\ \E p \in DeclarersOf(id) : p \in SwitchPlaces
         /\ \E p \in DeclarersOf(id) : p \in QuestionPlaces /\ NodeAt(p).id = None
         /\ Cardinality({e \in ErrorsOf("duplicate_id") : errors[e].ctx = id}) = 2

(***************************************************************************)
(* C3.  Every given next_question / goto whose value no node declares      *)
(* gives exactly one invalid_reference violation, at its own location and  *)
(* citing its value (two references to one missing identifier give two),   *)
(* and a reference whose target is declared gives none.                    *)
(***************************************************************************)
Unresolved == {f \in GivenRefs : RefValue(f) \notin DeclaredIds}

C3_OneViolationPerUnresolvedReference ==
    Done =>
      /\ \A f \in Unresolved :
           /\ Cardinality(ErrorsAt("invalid_reference", f)) = 1
           /\ \A e \in ErrorsAt("invalid_reference", f) : errors[e].ctx = RefValue(f)
      /\ \A f \in RefFields \ Unresolved : ErrorsAt("invalid_reference", f) = {}
      /\ Cardinality(ErrorsOf("invalid_reference")) = Cardinality(Unresolved)

\* Two references to the same missing identifier, a next_question and a
\* goto, rejected with two violations.
C3_Witness ==
    /\ pc = "Rejected"
    /\ \E f \in NextQuestionFields, g \in GotoFields :
         /\ f \in Unresolved /\ g \in Unresolved
         /\ RefValue(f) = RefValue(g)
         /\ Cardinality(ErrorsOf("invalid_reference")) = 2

(***************************************************************************)
(* C4.  Resolution does not depend on position: a reference whose target   *)
(* is declared by any node of the tree (later in document order, in        *)
(* another case, at another depth, a Switch) gives no violation, and no    *)
(* reference is checked before the walk has returned.                      *)
(***************************************************************************)
C4_ResolutionIsPositionIndependent ==
    /\ pc = "walk" => (r = 1 /\ ErrorsOf("invalid_reference") = {})
    /\ r > 1 => stack = <<>>
    /\ Done =>
         \A f \in GivenRefs, p \in Declaring :
            Declared(p) = RefValue(f) => ErrorsAt("invalid_reference", f) = {}

\* A validated tree with a reference whose target is declared later in
\* document order and at another depth, inside a case of a Switch.
C4_Witness ==
    /\ pc = "Validated"
    /\ \E f \in GivenRefs, p \in Declaring :
         /\ Declared(p) = RefValue(f)
         /\ Before(OwnerOf(f), p)
         /\ Len(p) > Len(OwnerOf(f))

(***************************************************************************)
(* C5.  Validation ends in exactly one of two outcomes: Validated, with    *)
(* the map published, exactly when no violation was accumulated; otherwise *)
(* Rejected, with one error carrying all the violations and the map never  *)
(* assigned.                                                               *)
(***************************************************************************)
C5_TwoOutcomes ==
    /\ pc = "Validated" =>
         errors = <<>> /\ raised = None /\ question_map = id_to_node
    /\ pc = "Rejected" =>
         errors # <<>> /\ raised = Some(errors) /\ question_map = <<>>
    /\ ~Done => raised = None /\ question_map = <<>>
    /\ Done => (r = Len(refs) + 1 /\ stack = <<>>)

\* Rejected with a duplicate_id and an invalid_reference in the one error,
\* the registry non-empty and nothing published.
C5_Witness ==
    /\ pc = "Rejected"
    /\ ErrorsOf("duplicate_id") # {}
    /\ ErrorsOf("invalid_reference") # {}
    /\ id_to_node # <<>>
    /\ question_map = <<>>


(***************************************************************************)
(* C6.  As claimed: in a Validated questionnaire every next_question and   *)
(* every goto that is not None, the empty string included, is a key of the *)
(* published map.                                                          *)
(***************************************************************************)
C6_Original ==
    pc = "Validated" => \A f \in NotNoneRefs : RefValue(f) \in DOMAIN question_map

(***************************************************************************)
(* C6, amended.  In a Validated questionnaire every non-empty              *)
(* next_question and every non-empty goto is a key of the published map;   *)
(* an empty-string reference is treated as absent and never checked.       *)
(***************************************************************************)
C6_GivenReferencesAreKeys ==
    pc = "Validated" => \A f \in GivenRefs : RefValue(f) \in DOMAIN question_map

\* Validated with a non-empty reference in the second answer of a Question,
\* beside an empty-string reference that is no key.
C6_Witness ==
    /\ pc = "Validated"
    /\ \E f \in GivenRefs \cap GotoFields : f[Len(f) - 1] = 1
    /\ \E f \in NotNoneRefs \ GivenRefs : RefValue(f) \notin DOMAIN question_map

(***************************************************************************)
(* C7.  As claimed: after the walk the keys of the registry are exactly    *)
(* the declared identifiers, a Question declaring its id whenever it is    *)
(* not None (the empty string included) and else its text, a Switch its id *)
(* whenever it is not None.                                                *)
(***************************************************************************)
C7_Original == WalkOver => DOMAIN id_to_node = DeclaredIdsNotNone

(***************************************************************************)
(* C7, amended.  After the walk the keys of the registry are exactly the   *)
(* declared identifiers, a Question declaring its id if it is present and  *)
(* non-empty and otherwise its question text, a Switch declaring its id if *)
(* it is present and non-empty and nothing otherwise, in one namespace;    *)
(* Cases, Answers and Templates add no key.                                *)
(***************************************************************************)
C7_RegistryKeysAreDeclaredIds == WalkOver => DOMAIN id_to_node = DeclaredIds

\* After the walk of a tree holding a Question with id "" and an Answer,
\* and a Switch with id "": neither "" nor the answer label nor the switch
\* expression is a key.
C7_Witness ==
    /\ WalkOver
    /\ \E p \in QuestionPlaces : NodeAt(p).id = Some("") /\ NodeAt(p).answers # <<>>
    /\ \E p \in SwitchPlaces : NodeAt(p).id = Some("")
    /\ DOMAIN id_to_node # {}
    /\ "" \notin DOMAIN id_to_node
    /\ AnswerLabel \notin DOMAIN id_to_node
    /\ SwitchExpr \notin DOMAIN id_to_node

(***************************************************************************)
(* C8.  Every location is the structural path of the field it names: the   *)
(* node at index i of a list reached via loc is at loc + ("questions", i), *)
(* the list of case k of a Switch at L is reached via L + ("cases", k), a  *)
(* duplicate_id is at node + ("id",), a next_question at node +            *)
(* ("next_question",), the goto of answer j at node + ("answers", j,       *)
(* "goto"); distinct fields never receive the same location.               *)
(***************************************************************************)
Distinct(seq, Loc(_)) == \A m, n \in DOMAIN seq : m # n => Loc(seq[m]) # Loc(seq[n])
ErrLoc(e) == e.loc
RefLoc(ref) == ref[1]
Self(x) == x

C8_LocationsAreStructuralPaths ==
    /\ \A n \in DOMAIN stack :
         /\ Follows(Root, stack[n].loc)
         /\ Get(Root, stack[n].loc).questions = stack[n].nodes
    /\ \A n \in DOMAIN visited :
         /\ visited[n] \in Places
         /\ Follows(Root, visited[n])
    /\ InLoop => (Follows(Root, CurLoc) /\ Get(Root, CurLoc) = CurNode)
    /\ \A n \in DOMAIN refs :
         /\ refs[n][1] \in RefFields
         /\ Follows(Root, refs[n][1])
         /\ Get(Root, refs[n][1]) = Some(refs[n][2])
    /\ \A e \in ErrorsOf("duplicate_id") :
         LET loc == errors[e].loc
             p == SubSeq(loc, 1, Len(loc) - 1)
         IN /\ loc = p \o <<"id">>
            /\ p \in Declaring
            /\ Follows(Root, loc)
            /\ Declared(p) = errors[e].ctx
    /\ \A e \in ErrorsOf("invalid_reference") :
         /\ errors[e].loc \in RefFields
         /\ Follows(Root, errors[e].loc)
         /\ Get(Root, errors[e].loc) = Some(errors[e].ctx)
    /\ Distinct(visited, Self)
    /\ Distinct(refs, RefLoc)
    /\ Distinct(errors, ErrLoc)

\* A rejection whose violation lies at
\* ("questions", 1, "cases", 0, "questions", 1, "id").
C8_Witness ==
    /\ pc = "Rejected"
    /\ \E e \in DOMAIN errors :
         errors[e].loc = <<"questions", 1, "cases", 0, "questions", 1, "id">>

(***************************************************************************)
(* C9.  The walk always terminates, and when it has, every Question and    *)
(* Switch of the tree has been visited exactly once and every given        *)
(* next_question and goto has been collected exactly once, whatever        *)
(* duplicates were flagged on the way.                                     *)
(***************************************************************************)
Range(seq) == {seq[n] : n \in DOMAIN seq}

WalkComplete ==
    /\ Range(visited) = Places
    /\ Len(visited) = Cardinality(Places)
    /\ {refs[n][1] : n \in DOMAIN refs} = GivenRefs
    /\ Len(refs) = Cardinality(GivenRefs)

C9_WalkTerminatesComplete == <>WalkOver /\ [](WalkOver => WalkComplete)

\* The walk is over; a Switch was flagged as duplicate and the Question in
\* its case, visited after it, was flagged too.
C9_Witness ==
    /\ WalkOver
    /\ \E s \in SwitchPlaces, q \in QuestionPlaces :
         /\ Before(s, q)
         /\ SubSeq(q, 1, Len(s)) = s
         /\ ErrorsAt("duplicate_id", s \o <<"id">>) # {}
         /\ ErrorsAt("duplicate_id", q \o <<"id">>) # {}

(***************************************************************************)
(* C10.  The violations are ordered: the duplicate_id violations first, in *)
(* document order of the flagged nodes, then the invalid_reference         *)
(* violations in the order their references were met (per Question         *)
(* next_question first, then the gotos by ascending answer index).         *)
(***************************************************************************)
C10_ViolationOrder ==
    \A m, n \in DOMAIN errors :
      m < n =>
        LET a == errors[m]
            b == errors[n]
        IN /\ a.type = "invalid_reference" => b.type = "invalid_reference"
           /\ (a.type = "duplicate_id" /\ b.type = "duplicate_id") =>
                Before(SubSeq(a.loc, 1, Len(a.loc) - 1), SubSeq(b.loc, 1, Len(b.loc) - 1))
           /\ (a.type = "invalid_reference" /\ b.type = "invalid_reference") =>
                RefBefore(a.loc, b.loc)

\* Rejected: the first Question's next_question and goto are both
\* unresolved and met before the duplicate that follows it, yet the
\* duplicate_id comes first, then next_question, then the goto.
C10_Witness ==
    /\ pc = "Rejected"
    /\ Len(errors) = 3
    /\ errors[1].type = "duplicate_id"
    /\ errors[2].type = "invalid_reference"
    /\ errors[3].type = "invalid_reference"
    /\ OwnerOf(errors[2].loc) = OwnerOf(errors[3].loc)
    /\ Before(OwnerOf(errors[2].loc), SubSeq(errors[1].loc, 1, Len(errors[1].loc) - 1))

====
